---- MODULE Spec2Model ----
(***************************************************************************)
(* The query scheduler of crates/query: Scheduler::query, the erased task  *)
(* built by ErasedQuery::erased_query, and the two trampolines             *)
(* (trampoline_single_threaded, trampoline_parallel).                      *)
(*                                                                         *)
(* The single-threaded trampoline polls one task at a time, so one poll is *)
(* one atomic step.  The parallel trampoline polls the tasks of a pass     *)
(* with rayon's par_iter_mut, so there every access to a concurrent        *)
(* container (DashMap entry, OnceLock get/set, DashSet insert/remove, the  *)
(* mutex-guarded push) is a step of its own and the steps of different     *)
(* tasks interleave.                                                       *)
(***************************************************************************)
EXTENDS Integers, Sequences, FiniteSets, TLC

\* Largest argument of the Fib query that is requested.
MaxN == 3
\* Number of request_and_trampoline calls made on one scheduler.
MaxRequests == 2

\* An OnceLock that was never set (OnceLock::default()).
Empty == -1
\* SomeQuery::run returns 123.
SomeQueryResult == 123

(***************************************************************************)
(* Query values.  A query value carries its kind (the NAME) and its        *)
(* argument.                                                               *)
(***************************************************************************)
Fib(n) == [kind |-> "Fib", n |-> n]
AddTwo == [kind |-> "AddTwo", n |-> 0]
SomeQuery == [kind |-> "SomeQuery", n |-> 0]
Spawn == [kind |-> "Spawn", n |-> 0]
Cyc(n) == [kind |-> "Cyc", n |-> n]
\* A query whose run panics, and one that queries it and awaits it.
Panicking == [kind |-> "Panicking", n |-> 0]
Waiting == [kind |-> "Waiting", n |-> 0]

Query == {Fib(n) : n \in 0..MaxN} \cup {AddTwo, SomeQuery, Spawn, Cyc(0), Cyc(1), Panicking, Waiting}
Kinds == {"Fib", "AddTwo", "SomeQuery", "Spawn", "Cyc", "Panicking", "Waiting"}

PollLoop == {"SingleThreaded", "Parallel"}

(***************************************************************************)
(* The bodies of the run functions, as the sequence of scheduler           *)
(* operations they perform: scheduler.query(q) creates an Ongoing, and     *)
(* h.await awaits the Ongoing created by the h-th query of the body.       *)
(***************************************************************************)
DoQuery(q) == [op |-> "query", q |-> q, h |-> 0]
DoAwait(h) == [op |-> "await", q |-> SomeQuery, h |-> h]

\* Fib::run: 0 and 1 return at once, n queries Fib(n-1), Fib(n-2) and
\* then awaits l and r.
FibBody(n) ==
    IF n < 2 THEN << >>
    ELSE << DoQuery(Fib(n - 1)), DoQuery(Fib(n - 2)), DoAwait(1), DoAwait(2) >>

\* AddTwo::run: two queries of SomeQuery, then a.await + b.await.
AddTwoBody == << DoQuery(SomeQuery), DoQuery(SomeQuery), DoAwait(1), DoAwait(2) >>

\* SomeQuery::run: no scheduler operation.
SomeQueryBody == << >>

\* A run that calls scheduler.query(SomeQuery) and drops the Ongoing.
SpawnBody == << DoQuery(SomeQuery) >>

\* A run that panics.
DoPanic == [op |-> "panic", q |-> SomeQuery, h |-> 0]
PanickingBody == << DoPanic >>

\* A run that queries Panicking and awaits it.
WaitingBody == << DoQuery(Panicking), DoAwait(1) >>

\* A run that awaits the other query of a two-query cycle.
CycBody(n) == << DoQuery(Cyc(1 - n)), DoAwait(1) >>

Body(q) ==
    CASE q.kind = "Fib" -> FibBody(q.n)
      [] q.kind = "Cyc" -> CycBody(q.n)
      [] q.kind = "AddTwo" -> AddTwoBody
      [] q.kind = "SomeQuery" -> SomeQueryBody
      [] q.kind = "Panicking" -> PanickingBody
      [] q.kind = "Waiting" -> WaitingBody
      [] OTHER -> SpawnBody

\* The value run returns, from the values its awaits yielded.
RunResult(q, vals) ==
    CASE q.kind = "Fib" -> (IF q.n = 0 THEN 0 ELSE IF q.n = 1 THEN 1 ELSE vals[1] + vals[2])
      [] q.kind = "AddTwo" -> vals[1] + vals[2]
      [] q.kind = "SomeQuery" -> SomeQueryResult
      [] q.kind = "Cyc" -> vals[1]
      [] OTHER -> 0

\* The queries whose Ongoing the body of q creates and never awaits.
Unawaited(q) ==
    LET body == Body(q) IN
    { body[k].q : k \in { j \in 1..Len(body) :
        /\ body[j].op = "query"
        /\ LET h == Cardinality({ m \in 1..j : body[m].op = "query" })
           IN  \A a \in 1..Len(body) : ~(body[a].op = "await" /\ body[a].h = h) } }

VARIABLES
    caches_by_type,   \* Scheduler.caches_by_type: the names with a cache
    cells,            \* Cache.cells: query -> serial of its cell, 0 if none
    cellStore,        \* the OnceLocks allocated in the arena: <<q, serial>> -> value
    enqueued,         \* Cache.enqueued
    erased_queue,     \* Scheduler.erased_queue
    future_queue,     \* the trampoline's live-task vector
    pc,               \* where the caller's thread is
    poll_loop,        \* Trampoline.poll_loop of the call in progress
    root,             \* the query of the request_and_trampoline in progress
    i,                \* index i of the single-threaded polling loop (1-based)
    polled,           \* parallel pass: the tasks whose poll has returned
    result,           \* what the last request_and_trampoline returned
    nreq,             \* requests made on this scheduler
    runs,             \* history: number of run invocations per query
    pushes,           \* history: descriptors appended to erased_queue per query
    requested,        \* history: the queries passed to Scheduler::query
    dropped,          \* history: queries whose Ongoing a finished run never awaited
    returned,         \* history: query -> result of its returned request, or Empty
    stSnap,           \* history: how a single-threaded run on a fresh scheduler ended
    materialized,     \* history: descriptors turned into tasks (erased_query), per query
    abandoned         \* history: the tasks of the vectors that a panic unwound

\* The arena of crates/query/src/arena.rs.
VARIABLES
    ARENA_COUNTER,    \* static ARENA_COUNTER
    arenas,           \* the arenas created so far, in creation order
    inflight,         \* alloc_ptr calls between allocs.push and droppers.push
    handles,          \* the Own, OwnPinned and Ref handles that exist
    lastGet           \* the last try_get / try_get_mut / try_get_mut_pinned call

avars == << ARENA_COUNTER, arenas, inflight, handles, lastGet >>

\* Scheduler::cache of crates/query/src/lib.rs, called by several threads for
\* query types some of which have the same NAME.
VARIABLES
    compute_type_names,   \* Scheduler.compute_type_names: NAME -> type name
    cache_types,          \* Scheduler.caches_by_type: NAME -> the Q of the Cache<Q> installed
    cache_ids,            \* Scheduler.caches_by_type: NAME -> the cache installed, 0 if none
    installs,             \* history: NAME -> caches put into caches_by_type for it
    calls,                \* per thread: the cache::<Q>() call it is in
    seen,                 \* history: the types whose call has passed the insert
    ncalls                \* history: cache::<Q>() calls started

cvars == << compute_type_names, cache_types, cache_ids, installs, calls, seen, ncalls >>

\* Name::fxhash of crates/query/src/name.rs.
VARIABLES
    bytes,            \* the argument
    hash_i,           \* let mut i
    hash,             \* let mut hash, as its eight bytes, lowest first
    fed,              \* history: the bytes passed to add_to_hash so far, in order
    hpc               \* the statement fxhash is at

hvars == << bytes, hash_i, hash, fed, hpc >>

\* The mutex of Scheduler.erased_queue, where the drain loop is followed
\* statement by statement.
VARIABLES
    lock,             \* who holds erased_queue's lock: "free" or "trampoline"
    popped            \* the descriptor the drain loop has popped and not yet materialized

lvars == << lock, popped >>

\* RegisterAllocator of crates/ir-generated/src/emit/register_allocator.rs.
VARIABLES
    next_register_id,     \* RegisterAllocator.register_id_nat32.next_register_id
    dropped_registers,    \* RegisterAllocator.dropped_registers
    live_registers,       \* history: the ids handed out and not dropped since
    last_next             \* history: the last next_nat32 call and its result

rvars == << next_register_id, dropped_registers, live_registers, last_next >>

\* Everything that is not state of the scheduler's trampoline.
others == << avars, cvars, hvars, lvars, rvars >>

sched == << caches_by_type, cells, cellStore, enqueued, erased_queue,
            runs, pushes, requested, dropped, materialized >>
vars == << caches_by_type, cells, cellStore, enqueued, erased_queue, future_queue,
           pc, poll_loop, root, i, polled, result, nreq, runs, pushes, requested,
           dropped, returned, stSnap, materialized, abandoned >>

\* Everything that is not state of the arena, of Scheduler::cache, of fxhash.
notArena == << vars, cvars, hvars, lvars, rvars >>
notCache == << vars, avars, hvars, lvars, rvars >>
notHash == << vars, avars, cvars, lvars, rvars >>
notRegisters == << vars, avars, cvars, hvars, lvars >>
\* Everything but the scheduler and the mutex of its pending queue.
notLock == << avars, cvars, hvars, rvars >>

\* The scheduler's shared state as one value, for the operators below.
Cur ==
    [ caches_by_type |-> caches_by_type, cells |-> cells, cellStore |-> cellStore,
      enqueued |-> enqueued, erased_queue |-> erased_queue, runs |-> runs,
      pushes |-> pushes, requested |-> requested, dropped |-> dropped,
      materialized |-> materialized ]

Install(S) ==
    /\ caches_by_type' = S.caches_by_type
    /\ cells' = S.cells
    /\ cellStore' = S.cellStore
    /\ enqueued' = S.enqueued
    /\ erased_queue' = S.erased_queue
    /\ runs' = S.runs
    /\ pushes' = S.pushes
    /\ requested' = S.requested
    /\ dropped' = S.dropped
    /\ materialized' = S.materialized

(***************************************************************************)
(* Scheduler::cache and Cache::cell                                        *)
(***************************************************************************)
\* Scheduler::cache::<Q>(): entry(Q::NAME).or_insert_with(new cache).
SchedulerCache(S, kind) == [S EXCEPT !.caches_by_type = @ \cup {kind}]

\* Number of OnceLocks allocated so far for the key q.
CellsAllocated(S, q) == Cardinality({ c \in DOMAIN S.cellStore : c[1] = q })

\* A cell is always allocated and put in the map (cells.insert in place of
\* cells.entry(..).or_insert_with(..)).
CacheCellAlwaysAlloc(S, q) ==
    LET k == CellsAllocated(S, q) + 1 IN
    [ S |-> [S EXCEPT !.cells[q] = k, !.cellStore = @ @@ (<< q, k >> :> Empty)],
      cell |-> << q, k >> ]

\* Cache::cell: cells.entry(q).or_insert_with(|| arena.alloc(OnceLock::default())).
CacheCell(S, q) ==
    IF S.cells[q] # 0
    THEN [ S |-> S, cell |-> << q, S.cells[q] >> ]
    ELSE LET k == CellsAllocated(S, q) + 1 IN
         [ S |-> [S EXCEPT !.cells[q] = k, !.cellStore = @ @@ (<< q, k >> :> Empty)],
           cell |-> << q, k >> ]

\* erased_queue.lock().push(Box::new(Some(query)))
PushErased(S, q) ==
    [S EXCEPT !.erased_queue = Append(@, q), !.pushes[q] = @ + 1]

\* The enqueue condition is negated: !cache.enqueued.insert(..).
ShouldPushNegated(wasEmpty, inserted) == wasEmpty /\ ~inserted

\* cell.get().is_none() && cache.enqueued.insert(query.clone())
ShouldPush(wasEmpty, inserted) == wasEmpty /\ inserted

\* Scheduler::query run without interruption (the caller's thread before the
\* trampoline; a task polled by the single-threaded trampoline goes through
\* the same steps in QueryStep).
SchedulerQuery(S, q) ==
    LET S1 == SchedulerCache(S, q.kind)
        c == CacheCell(S1, q)
        S2 == [c.S EXCEPT !.requested = @ \cup {q}]
        wasEmpty == S2.cellStore[c.cell] = Empty
        inserted == wasEmpty /\ q \notin S2.enqueued
        S3 == IF wasEmpty THEN [S2 EXCEPT !.enqueued = @ \cup {q}] ELSE S2
    IN  [ S |-> IF ShouldPush(wasEmpty, inserted) THEN PushErased(S3, q) ELSE S3,
          cell |-> c.cell ]

(***************************************************************************)
(* The task built by erased_query.  ip = 0: before the async block has     *)
(* started; 1..Len(body): the operation of run it is at; Len(body)+1:      *)
(* cell.set; Len(body)+2: enqueued.remove.  sub is the step inside         *)
(* Scheduler::query.  hs are the Ongoings created, vals the values the     *)
(* awaits yielded.  polls is history: the polls of the task that have       *)
(* returned in the current pass.                                           *)
(***************************************************************************)
NewTask(q, cell) ==
    [ some |-> TRUE, q |-> q, cell |-> cell, ip |-> 0, sub |-> "cache",
      hs |-> << >>, vals |-> << >>, polls |-> 0 ]

\* Option::None in the parallel trampoline's vector.
NoneTask ==
    [ some |-> FALSE, q |-> SomeQuery, cell |-> << SomeQuery, 0 >>, ip |-> 0,
      sub |-> "cache", hs |-> << >>, vals |-> << >>, polls |-> 0 ]

\* ErasedQuery::erased_query: take the query, look its cell up, allocate the
\* future.
ErasedQuery(S, q) ==
    LET S1 == SchedulerCache(S, q.kind)
        c == CacheCell(S1, q)
    IN  [ S |-> [c.S EXCEPT !.materialized[q] = @ + 1], task |-> NewTask(q, c.cell) ]

Cont(S, t) == [ S |-> S, t |-> t, out |-> "cont" ]
NextOp(t) == [t EXCEPT !.ip = @ + 1, !.sub = "cache"]

\* One step of scheduler.query(x) made by task t.
QueryStep(S, t, x) ==
    CASE t.sub = "cache" ->
            Cont(SchedulerCache(S, x.kind), [t EXCEPT !.sub = "cell"])
      [] t.sub = "cell" ->
            LET c == CacheCell(S, x) IN
            Cont([c.S EXCEPT !.requested = @ \cup {x}],
                 [t EXCEPT !.sub = "get", !.hs = Append(@, c.cell)])
      [] t.sub = "get" ->
            IF S.cellStore[t.hs[Len(t.hs)]] = Empty
            THEN Cont(S, [t EXCEPT !.sub = "insert"])
            ELSE Cont(S, NextOp(t))
      [] t.sub = "insert" ->
            IF ShouldPush(TRUE, x \notin S.enqueued)
            THEN Cont([S EXCEPT !.enqueued = @ \cup {x}], [t EXCEPT !.sub = "push"])
            ELSE Cont([S EXCEPT !.enqueued = @ \cup {x}], NextOp(t))
      [] OTHER ->
            Cont(PushErased(S, x), NextOp(t))

\* Ongoing::poll: Ready(value) if the cell is set, Pending otherwise.
OngoingPoll(S, t, h) ==
    LET v == S.cellStore[t.hs[h]] IN
    IF v # Empty
    THEN Cont(S, [NextOp(t) EXCEPT !.vals = Append(@, v)])
    ELSE [ S |-> S, t |-> t, out |-> "pending" ]

\* The unwinding takes the query out of the enqueued set.
UnwindRemovesEnqueued(S, t) == [S EXCEPT !.enqueued = @ \ {t.q}]

\* run panics: the async block is left by unwinding, before cell.set and
\* before cache.enqueued.remove.
Unwind(S, t) == S

\* One step of the async block of erased_query.
TaskStep(S, t) ==
    LET body == Body(t.q) IN
    IF t.ip = 0 THEN
        \* scheduler.cache::<Q>(); query.clone().run(scheduler)
        Cont([SchedulerCache(S, t.q.kind) EXCEPT !.runs[t.q] = @ + 1], NextOp(t))
    ELSE IF t.ip <= Len(body) THEN
        IF body[t.ip].op = "query"
        THEN QueryStep(S, t, body[t.ip].q)
        ELSE IF body[t.ip].op = "await"
        THEN OngoingPoll(S, t, body[t.ip].h)
        ELSE [ S |-> Unwind(S, t), t |-> t, out |-> "panic" ]
    ELSE IF t.ip = Len(body) + 1 THEN
        \* run has returned (its unawaited Ongoings are dropped); cell.set(..)
        \* .expect("cell may only be computed once")
        IF S.cellStore[t.cell] # Empty
        THEN [ S |-> [S EXCEPT !.dropped = @ \cup Unawaited(t.q)], t |-> t, out |-> "panic" ]
        ELSE Cont([S EXCEPT !.dropped = @ \cup Unawaited(t.q),
                            !.cellStore[t.cell] = RunResult(t.q, t.vals)],
                  NextOp(t))
    ELSE
        \* cache.enqueued.remove(&query)
        [ S |-> [S EXCEPT !.enqueued = @ \ {t.q}], t |-> t, out |-> "ready" ]

\* One poll of a task by one thread: steps until Pending, Ready or a panic.
RECURSIVE Poll(_, _)
Poll(S, t) ==
    LET r == TaskStep(S, t) IN
    IF r.out = "cont" THEN Poll(r.S, r.t) ELSE r

(***************************************************************************)
(* The trampolines                                                         *)
(***************************************************************************)
\* while let Some(c) = erased_queue.lock().pop() { future_queue.push(c.erased_query(self)) }
RECURSIVE DrainQueue(_, _)
DrainQueue(S, fq) ==
    IF S.erased_queue = << >> THEN [ S |-> S, fq |-> fq ]
    ELSE LET n == Len(S.erased_queue)
             m == ErasedQuery([S EXCEPT !.erased_queue = SubSeq(@, 1, n - 1)],
                              S.erased_queue[n])
         IN  DrainQueue(m.S, Append(fq, m.task))

\* Vec::swap_remove(k), k 1-based.
SwapRemove(s, k) ==
    LET n == Len(s) IN
    [ j \in 1..(n - 1) |-> IF j = k THEN s[n] ELSE s[j] ]

\* The sweep of the parallel trampoline: swap_remove every None.
RECURSIVE Sweep(_, _)
Sweep(fq, k) ==
    IF k > Len(fq) THEN fq
    ELSE IF ~fq[k].some THEN Sweep(SwapRemove(fq, k), k)
    ELSE Sweep(fq, k + 1)

\* The loop is left when the pending queue is empty.
LoopDoneWhenQueueEmpty(fq, eq) == eq = << >>

\* if future_queue.is_empty() { break; }
LoopDone(fq, eq) == fq = << >>

\* The contents of the cells, by query.
CellContents ==
    [ q \in Query |-> IF cells[q] = 0 THEN Empty ELSE cellStore[<< q, cells[q] >>] ]

NoSnap == [ seed |-> Spawn, ok |-> FALSE, cells |-> [ q \in Query |-> Empty ],
            runs |-> [ q \in Query |-> 0 ] ]

\* No try_get, try_get_mut or try_get_mut_pinned has been called yet.
NoGet == [ kind |-> "None", foreign |-> FALSE, expected |-> 0, res |-> "None", val |-> 0 ]

\* No arena has been created yet.
ArenaInit ==
    /\ ARENA_COUNTER = 0
    /\ arenas = << >>
    /\ inflight = {}
    /\ handles = {}
    /\ lastGet = NoGet

\* Scheduler::new on a new arena.
SchedulerInit ==
    /\ caches_by_type = {}
    /\ cells = [ q \in Query |-> 0 ]
    /\ cellStore = << >>
    /\ enqueued = {}
    /\ erased_queue = << >>
    /\ future_queue = << >>
    /\ pc = "idle"
    /\ poll_loop = "SingleThreaded"
    /\ root = SomeQuery
    /\ i = 1
    /\ polled = {}
    /\ result = Empty
    /\ nreq = 0
    /\ runs = [ q \in Query |-> 0 ]
    /\ pushes = [ q \in Query |-> 0 ]
    /\ requested = {}
    /\ dropped = {}
    /\ returned = [ q \in Query |-> Empty ]
    /\ stSnap = NoSnap
    /\ materialized = [ q \in Query |-> 0 ]
    /\ abandoned = {}

\* Query types: A and B have the same NAME, C has one of its own.
QueryTypes == {"A", "B", "C"}
Names == {"N1", "N2"}
\* Q::NAME
NameOf(ty) == IF ty \in {"A", "B"} THEN "N1" ELSE "N2"

\* Threads that call Scheduler::cache.
MaxThreads == 2
\* cache::<Q>() calls made in one run.
MaxCalls == 3
Threads == 1..MaxThreads

NoCall == [ ty |-> "none", pc |-> "idle", second |-> FALSE, got |-> "none", gotCache |-> 0 ]

\* Scheduler::new: both maps are empty.
CacheInit ==
    /\ compute_type_names = [ n \in Names |-> "none" ]
    /\ cache_types = [ n \in Names |-> "none" ]
    /\ cache_ids = [ n \in Names |-> 0 ]
    /\ installs = [ n \in Names |-> 0 ]
    /\ calls = [ t \in Threads |-> NoCall ]
    /\ seen = {}
    /\ ncalls = 0

\* size_of::<usize>()
UsizeBytes == 8
\* 0_u64
Zero64 == [ k \in 1..8 |-> 0 ]

\* fxhash has not been called.
HashIdle ==
    /\ bytes = << >>
    /\ hash_i = 0
    /\ hash = Zero64
    /\ fed = << >>
    /\ hpc = "idle"

\* No descriptor: the value of popped outside the body of the drain loop.
NoQuery == [kind |-> "None", n |-> 0]

\* Nobody holds the lock of erased_queue.
LockInit ==
    /\ lock = "free"
    /\ popped = NoQuery

\* register::NAT32_ID_RANGE, as its start and its (excluded) end.
RANGE == 1024
NAT32_ID_RANGE == [ start |-> RANGE * 1, end |-> RANGE * 2 ]

\* next_nat32 has not been called.
NoNext == [ res |-> "None", id |-> 0, dropped |-> << >>, fresh |-> 0, wasLive |-> FALSE ]

\* RegisterAllocator::new
RegisterInit ==
    /\ next_register_id = NAT32_ID_RANGE.start
    /\ dropped_registers = << >>
    /\ live_registers = {}
    /\ last_next = NoNext

Init == SchedulerInit /\ ArenaInit /\ CacheInit /\ HashIdle /\ LockInit /\ RegisterInit

\* A new arena and a new scheduler in it (as each test starts).
NewScheduler ==
    /\ pc = "idle"
    /\ nreq > 0
    /\ caches_by_type' = {}
    /\ cells' = [ q \in Query |-> 0 ]
    /\ cellStore' = << >>
    /\ enqueued' = {}
    /\ erased_queue' = << >>
    /\ future_queue' = << >>
    /\ result' = Empty
    /\ nreq' = 0
    /\ runs' = [ q \in Query |-> 0 ]
    /\ pushes' = [ q \in Query |-> 0 ]
    /\ requested' = {}
    /\ dropped' = {}
    /\ returned' = [ q \in Query |-> Empty ]
    /\ UNCHANGED << pc, poll_loop, root, i, polled, stSnap >>
    /\ materialized' = [ q \in Query |-> 0 ]
    /\ abandoned' = {}
    /\ UNCHANGED others

\* request_and_trampoline: drop(self.query(query.clone())); self.trampoline(..)
RequestAndTrampoline(q, m) ==
    /\ pc = "idle"
    /\ nreq < MaxRequests
    /\ Install(SchedulerQuery(Cur, q).S)
    /\ root' = q
    /\ poll_loop' = m
    /\ pc' = "drain"
    /\ UNCHANGED << future_queue, i, polled, result, nreq, returned, stSnap, abandoned >>
    /\ UNCHANGED others

\* The start of a pass, in both trampolines: the pending queue is drained
\* into the live-task vector.
Drain ==
    /\ pc = "drain"
    /\ LET d == DrainQueue(Cur, future_queue) IN
        /\ Install(d.S)
        /\ future_queue' = [ k \in 1..Len(d.fq) |-> [d.fq[k] EXCEPT !.polls = 0] ]
    /\ pc' = "poll"
    /\ i' = 1
    /\ polled' = {}
    /\ UNCHANGED << poll_loop, root, result, nreq, returned, stSnap, abandoned >>
    /\ UNCHANGED others

\* How the run in progress ends, for the comparison of the two modes.
Snap(S) ==
    [ seed |-> root, ok |-> TRUE,
      cells |-> [ q \in Query |-> IF S.cells[q] = 0 THEN Empty
                                  ELSE S.cellStore[<< q, S.cells[q] >>] ],
      runs |-> S.runs ]

\* Every poll is followed by i += 1.
NextIndexAlwaysAdvances(out, k) == k + 1

\* Poll::Ready: swap_remove(i); continue.  Poll::Pending: i += 1.
NextIndex(out, k) == IF out = "ready" THEN k ELSE k + 1

\* trampoline_single_threaded: one iteration of while i < future_queue.len().
PollSingleThreaded ==
    /\ pc = "poll"
    /\ poll_loop = "SingleThreaded"
    /\ i <= Len(future_queue)
    /\ LET r == Poll(Cur, future_queue[i]) IN
        /\ Install(r.S)
        /\ CASE r.out = "pending" ->
                    /\ future_queue' = [future_queue EXCEPT ![i] = [r.t EXCEPT !.polls = @ + 1]]
                    /\ i' = NextIndex(r.out, i)
                    /\ pc' = pc
             [] r.out = "ready" ->
                    /\ future_queue' = SwapRemove(future_queue, i)
                    /\ i' = NextIndex(r.out, i)
                    /\ pc' = pc
             [] OTHER ->
                    /\ future_queue' = future_queue
                    /\ i' = i
                    /\ pc' = "panicked"
    /\ UNCHANGED << poll_loop, root, polled, result, nreq, returned, stSnap, abandoned >>
    /\ UNCHANGED others

\* trampoline_single_threaded: the end of a pass.
EndPassSingleThreaded ==
    /\ pc = "poll"
    /\ poll_loop = "SingleThreaded"
    /\ i > Len(future_queue)
    /\ pc' = IF LoopDone(future_queue, erased_queue) THEN "read" ELSE "drain"
    /\ stSnap' = IF LoopDone(future_queue, erased_queue) /\ nreq = 0
                 THEN Snap(Cur) ELSE stSnap
    /\ UNCHANGED << sched, future_queue, poll_loop, root, i, polled, result, nreq, returned,
                    abandoned >>
    /\ UNCHANGED others

\* trampoline_parallel: one step of the poll of task k, on some rayon thread.
PollParallel(k) ==
    /\ pc = "poll"
    /\ poll_loop = "Parallel"
    /\ k \in 1..Len(future_queue)
    /\ k \notin polled
    /\ LET r == TaskStep(Cur, future_queue[k]) IN
        /\ Install(r.S)
        /\ CASE r.out = "cont" ->
                    /\ future_queue' = [future_queue EXCEPT ![k] = r.t]
                    /\ polled' = polled
                    /\ pc' = pc
             [] r.out = "pending" ->
                    /\ future_queue' = [future_queue EXCEPT ![k].polls = @ + 1]
                    /\ polled' = polled \cup {k}
                    /\ pc' = pc
             [] r.out = "ready" ->
                    /\ future_queue' = [future_queue EXCEPT ![k] = NoneTask]
                    /\ polled' = polled \cup {k}
                    /\ pc' = pc
             [] OTHER ->
                    /\ future_queue' = future_queue
                    /\ polled' = polled
                    /\ pc' = "panicked"
    /\ UNCHANGED << poll_loop, root, i, result, nreq, returned, stSnap, abandoned >>
    /\ UNCHANGED others

\* trampoline_parallel: for_each has returned; sweep the Nones, end the pass.
EndPassParallel ==
    /\ pc = "poll"
    /\ poll_loop = "Parallel"
    /\ polled = 1..Len(future_queue)
    /\ LET fq == Sweep(future_queue, 1) IN
        /\ future_queue' = fq
        /\ pc' = IF LoopDone(fq, erased_queue) THEN "read" ELSE "drain"
    /\ polled' = {}
    /\ UNCHANGED << sched, poll_loop, root, i, result, nreq, returned, stSnap, abandoned >>
    /\ UNCHANGED others

\* request_and_trampoline after the trampoline:
\* self.cache().cell(self.arena, query).get().expect(..)
ReadResult ==
    /\ pc = "read"
    /\ LET c == CacheCell(SchedulerCache(Cur, root.kind), root)
           v == c.S.cellStore[c.cell]
       IN  /\ Install(c.S)
           /\ IF v = Empty
              THEN /\ pc' = "panicked"
                   /\ UNCHANGED << result, returned, nreq >>
              ELSE /\ pc' = "idle"
                   /\ result' = v
                   /\ returned' = [returned EXCEPT ![root] = v]
                   /\ nreq' = nreq + 1
    /\ UNCHANGED << future_queue, poll_loop, root, i, polled, stSnap, abandoned >>
    /\ UNCHANGED others

\* The caller requests some query under some poll loop.
Request == \E q \in Query, m \in PollLoop : RequestAndTrampoline(q, m)

\* Some rayon thread takes a step of the poll of some task.
PollParallelStep == \E k \in 1..Len(future_queue) : PollParallel(k)

Next ==
    \/ NewScheduler
    \/ Request
    \/ Drain
    \/ PollSingleThreaded
    \/ EndPassSingleThreaded
    \/ PollParallelStep
    \/ EndPassParallel
    \/ ReadResult

Spec == Init /\ [][Next]_vars

(***************************************************************************)
(* Properties                                                              *)
(***************************************************************************)
\* The n-th Fibonacci number.
RECURSIVE FibVal(_)
FibVal(n) == IF n < 2 THEN n ELSE FibVal(n - 1) + FibVal(n - 2)

\* C1: run is invoked at most once for every query and never for a query
\* that was not requested, and when a trampoline returns run has been
\* invoked exactly once for every requested query.
AtMostOnceExecution ==
    /\ \A q \in Query : runs[q] <= 1 /\ (q \notin requested => runs[q] = 0)
    /\ pc = "read" => \A q \in requested : runs[q] = 1

\* C2: at most one task descriptor of a query is ever appended to the
\* pending queue.
AtMostOneDescriptor == \A q \in Query : pushes[q] <= 1

\* C3: at most one cell is ever allocated for a query value, the task of a
\* query writes to that cell, and every Ongoing created for a query refers
\* to that cell, so two Ongoings for equal queries are the same reference.
OneCellPerQuery ==
    /\ \A q \in Query : CellsAllocated(Cur, q) <= 1
    /\ \A k \in 1..Len(future_queue) :
         LET t == future_queue[k] IN
         t.some =>
            /\ t.cell = << t.q, cells[t.q] >>
            /\ \A h \in 1..Len(t.hs) : t.hs[h] = << t.hs[h][1], cells[t.hs[h][1]] >>
            /\ \A g, h \in 1..Len(t.hs) : t.hs[g][1] = t.hs[h][1] => t.hs[g] = t.hs[h]

\* C3 witness: a task of AddTwo, polled in parallel with others, has issued
\* query(SomeQuery) twice and both awaits have yielded.
TwoAwaitsOfSameQuery ==
    \E k \in 1..Len(future_queue) :
        /\ future_queue[k].some
        /\ future_queue[k].q = AddTwo
        /\ Len(future_queue[k].hs) = 2
        /\ Len(future_queue[k].vals) = 2
        /\ future_queue[k].vals[1] = future_queue[k].vals[2]

\* The arguments k of the queries Fib(k) that computing Fib(n) requests.
FibRequested(n) == IF n = 1 THEN {1} ELSE 0..n

ModeEquivalence ==
    ( /\ poll_loop = "Parallel"
      /\ pc \in {"read", "panicked"}
      /\ nreq = 0
      /\ stSnap.ok
      /\ stSnap.seed = root )
    => (CellContents = stSnap.cells /\ runs = stSnap.runs)

\* C6: a request_and_trampoline(q) made after one for q has returned invokes
\* no run, appends nothing to the pending queue, changes no cell and returns
\* the same result.
IdempotentReRequest ==
    [][ /\ (pc' # "idle" /\ returned'[root'] # Empty)
            => UNCHANGED << runs, pushes, cellStore >>
        /\ (pc = "read" /\ returned[root] # Empty /\ pc' = "idle")
            => (result' = returned[root] /\ UNCHANGED << runs, pushes, cellStore >>)
      ]_vars

\* C7: when the trampoline of request_and_trampoline(q) returns, the cell of
\* q is full, so the expect of request_and_trampoline does not fail.
ReadsFilledCell == pc = "read" => CellContents[root] # Empty

\* C7 witness: the parallel trampoline of a query with sub-queries returns.
ParallelTrampolineReturned ==
    /\ pc = "read"
    /\ poll_loop = "Parallel"
    /\ root.kind = "Fib"
    /\ root.n >= 2
    /\ CellContents[root] # Empty

\* C8: when a trampoline returns, the pending queue is empty and no live
\* task remains.
QuiescentOnReturn == pc = "read" => (erased_queue = << >> /\ future_queue = << >>)

\* C9: when the trampoline returns, every query whose Ongoing a task dropped
\* without awaiting it has been run and its cell is full.
DroppedOngoingIsComputed ==
    pc = "read" => \A q \in dropped : runs[q] >= 1 /\ CellContents[q] # Empty

\* C10: when a trampoline returns, every query requested so far has a full
\* cell.
AllRequestedComputed ==
    pc = "read" => \A q \in requested : CellContents[q] # Empty

\* C11: a query on a cycle is never computed: the cells of the cycle stay
\* empty, and once a query of the cycle has been requested the trampoline
\* never returns and its live-task vector is never empty at the end of a
\* pass (the tasks of the cycle are pending in every pass).
CycleIsPermanentlyPending ==
    /\ \A n \in 0..1 : CellContents[Cyc(n)] = Empty /\ runs[Cyc(n)] <= 1
    /\ (\E n \in 0..1 : Cyc(n) \in requested) =>
          /\ pc \notin {"read", "idle"}
          /\ (pc = "drain" /\ Cyc(0) \in requested /\ Cyc(1) \in requested) =>
                \E k \in 1..Len(future_queue) :
                    /\ future_queue[k].q.kind = "Cyc"
                    /\ future_queue[k].ip = 2

\* C11 witness: both tasks of the cycle have been polled, are pending at
\* their await, and the trampoline starts another pass.
CycleTasksPending ==
    /\ pc = "drain"
    /\ Len(future_queue) = 2
    /\ \A k \in 1..2 : future_queue[k].q.kind = "Cyc" /\ future_queue[k].ip = 2
    /\ erased_queue = << >>

\* C12: a drain materializes the descriptors in the order in which they
\* were appended to the pending queue (first in, first out).
FifoMaterialization ==
    [][ pc = "drain" =>
          /\ Len(future_queue') = Len(future_queue) + Len(erased_queue)
          /\ \A k \in 1..Len(erased_queue) :
                future_queue'[Len(future_queue) + k].q = erased_queue[k]
      ]_vars

(***************************************************************************)
(* The arena (crates/query/src/arena.rs).  An allocation is named by the   *)
(* arena that made it and its position in that arena's allocs vector       *)
(* (1-based here, 0-based in the code); a pointer is that pair.            *)
(***************************************************************************)
\* Arenas created in one run.
MaxArenas == 2
\* Allocations made in one run, over all arenas.
MaxAllocs == 2

\* size_of::<Layout>(): the layout field of Allocation<T> (two usizes).
LayoutSize == 16
\* Alignment of Allocation<T> (that of Layout, a usize).
AllocationAlign == 8

\* The types of the allocated values: i32, Vec<i32> and ().
Types == {"i32", "Vec", "Unit"}
SizeOf(ty) == CASE ty = "i32" -> 4 [] ty = "Vec" -> 24 [] OTHER -> 0
\* std::mem::needs_drop::<T>()
NeedsDrop(ty) == ty = "Vec"
Values(ty) == CASE ty = "i32" -> {1, 2} [] ty = "Vec" -> {1} [] OTHER -> {0}

\* Layout::new::<Allocation<T>>().size(): repr(C), layout then data, padded
\* to the alignment.
AllocationSize(ty) ==
    ((LayoutSize + SizeOf(ty) + AllocationAlign - 1) \div AllocationAlign) * AllocationAlign

\* NonNull::dangling()
Dangling == << 0, 0 >>
\* What a read through a pointer into deallocated memory yields.
Freed == -2

AllocFns == {"alloc", "alloc_own", "alloc_own_pinned"}

\* The number of allocations registered so far, over all arenas.
RECURSIVE TotalAllocs(_)
TotalAllocs(as) == IF as = << >> THEN 0 ELSE Len(Head(as).allocs) + TotalAllocs(Tail(as))

\* load in place of fetch_add: the counter is not advanced.
FetchAddForgotten(c) == c

\* ARENA_COUNTER.fetch_add(1, Ordering::Relaxed): the new counter value.
FetchAdd(c) == c + 1

\* Arena::new
ArenaNew ==
    /\ Len(arenas) < MaxArenas
    /\ arenas' = Append(arenas, [ index |-> ARENA_COUNTER, allocs |-> << >>,
                                  droppers |-> << >>, live |-> TRUE, log |-> << >> ])
    /\ ARENA_COUNTER' = FetchAdd(ARENA_COUNTER)
    /\ UNCHANGED << inflight, handles, lastGet >>
    /\ UNCHANGED notArena

\* What alloc, alloc_own and alloc_own_pinned make of the pointer: a plain
\* reference (no handle), an Own or an OwnPinned carrying self.index.
MakeHandle(fn, a, ptr, v) ==
    IF fn = "alloc" THEN {}
    ELSE { [ kind |-> IF fn = "alloc_own" THEN "Own" ELSE "OwnPinned",
             ptr |-> ptr, arena_index |-> arenas[a].index, val |-> v ] }

\* The new entry takes the place of the last one.
AllocsPushOverLast(allocs, x) ==
    IF allocs = << >> THEN << x >> ELSE [allocs EXCEPT ![Len(allocs)] = x]

\* allocs.push(erased)
AllocsPush(allocs, x) == Append(allocs, x)

\* alloc_ptr up to and including allocs.push: the zero-size return, the
\* allocation, the registration in allocs.  A type without a destructor is
\* done here.
AllocPtrPush(a, ty, v, fn) ==
    /\ a \in 1..Len(arenas)
    /\ arenas[a].live
    /\ TotalAllocs(arenas) < MaxAllocs
    /\ IF AllocationSize(ty) = 0
       THEN /\ handles' = handles \cup MakeHandle(fn, a, Dangling, v)
            /\ UNCHANGED << arenas, inflight >>
       ELSE LET k == Len(arenas[a].allocs) + 1 IN
            /\ arenas' = [arenas EXCEPT ![a].allocs = AllocsPush(@, [ ty |-> ty, val |-> v ])]
            /\ IF NeedsDrop(ty)
               THEN /\ inflight' = inflight \cup
                            { [ a |-> a, alloc_index |-> k, ty |-> ty, val |-> v, fn |-> fn ] }
                    /\ UNCHANGED handles
               ELSE /\ handles' = handles \cup MakeHandle(fn, a, << a, k >>, v)
                    /\ UNCHANGED inflight
    /\ UNCHANGED << ARENA_COUNTER, lastGet >>
    /\ UNCHANGED notArena

\* The index is read from allocs when the dropper is registered.
AllocIndexAtRegistration(p, allocs) == Len(allocs)

\* alloc_index: the length of allocs before this call's push, taken under the
\* lock of allocs.
AllocIndex(p, allocs) == p.alloc_index

\* alloc_ptr from droppers.push on, for a type with a destructor.
AllocPtrRegister(p) ==
    /\ p \in inflight
    /\ arenas' = [arenas EXCEPT ![p.a].droppers =
                        Append(@, [ alloc_index |-> AllocIndex(p, arenas[p.a].allocs),
                                    ty |-> p.ty ])]
    /\ inflight' = inflight \ {p}
    /\ handles' = handles \cup MakeHandle(p.fn, p.a, << p.a, p.alloc_index >>, p.val)
    /\ UNCHANGED << ARENA_COUNTER, lastGet >>
    /\ UNCHANGED notArena

\* The Ref gets a zeroed arena index.
DowngradeZeroIndex(h) == [h EXCEPT !.kind = "Ref", !.arena_index = 0]

\* Own::downgrade
Downgrade(h) == [h EXCEPT !.kind = "Ref"]

DowngradeOwn(h) ==
    /\ h \in handles
    /\ h.kind = "Own"
    /\ handles' = (handles \ {h}) \cup {Downgrade(h)}
    /\ UNCHANGED << ARENA_COUNTER, arenas, inflight, lastGet >>
    /\ UNCHANGED notArena

\* The check accepts every handle of an older arena.
SameArenaOrOlder(handleIndex, arenaIndex) == handleIndex <= arenaIndex

\* re.arena_index == self.index
SameArena(handleIndex, arenaIndex) == handleIndex = arenaIndex

\* What is read through the pointer.
Deref(ptr) ==
    IF ptr[1] \in 1..Len(arenas) /\ arenas[ptr[1]].live /\ ptr[2] \in 1..Len(arenas[ptr[1]].allocs)
    THEN arenas[ptr[1]].allocs[ptr[2]].val
    ELSE Freed

\* try_get, try_get_mut and try_get_mut_pinned (the handle kind selects
\* which): Ok(reference) or Err(DifferentArenaError).  foreign and expected
\* record the call: whether the handle was made by another arena, and the
\* value it was allocated with.
TryGetResult(a, h) ==
    IF SameArena(h.arena_index, arenas[a].index)
    THEN [ kind |-> h.kind, foreign |-> h.ptr[1] # a, expected |-> h.val,
           res |-> "Ok", val |-> Deref(h.ptr) ]
    ELSE [ kind |-> h.kind, foreign |-> h.ptr[1] # a, expected |-> h.val,
           res |-> "Err", val |-> 0 ]

TryGet(a, h) ==
    /\ a \in 1..Len(arenas)
    /\ arenas[a].live
    /\ h \in handles
    /\ lastGet' = TryGetResult(a, h)
    /\ UNCHANGED << ARENA_COUNTER, arenas, inflight, handles >>
    /\ UNCHANGED notArena

DropEvent(k) == [ ev |-> "drop", idx |-> k ]
DeallocEvent(k) == [ ev |-> "dealloc", idx |-> k ]

\* The allocations are deallocated before the drop functions run.
DropEventsDeallocFirst(A) ==
    [ k \in 1..Len(A.allocs) |-> DeallocEvent(k) ]
    \o [ j \in 1..Len(A.droppers) |-> DropEvent(A.droppers[j].alloc_index) ]

\* The drop functions run from the last dropper to the first.
DropEventsReversed(A) ==
    [ j \in 1..Len(A.droppers) |->
        DropEvent(A.droppers[Len(A.droppers) + 1 - j].alloc_index) ]
    \o [ k \in 1..Len(A.allocs) |-> DeallocEvent(k) ]

\* Drop for Arena: every dropper in droppers order, then every allocation
\* in allocs order.
DropEvents(A) ==
    [ j \in 1..Len(A.droppers) |-> DropEvent(A.droppers[j].alloc_index) ]
    \o [ k \in 1..Len(A.allocs) |-> DeallocEvent(k) ]

\* Drop for Arena.  It takes &mut self, so no alloc_ptr is in progress.  The
\* two vectors are drained by the code; they are kept here as the record of
\* what the arena held.
ArenaDrop(a) ==
    /\ a \in 1..Len(arenas)
    /\ arenas[a].live
    /\ \A p \in inflight : p.a # a
    /\ arenas' = [arenas EXCEPT ![a].live = FALSE, ![a].log = DropEvents(arenas[a])]
    /\ UNCHANGED << ARENA_COUNTER, inflight, handles, lastGet >>
    /\ UNCHANGED notArena

\* alloc and alloc_pinned: the caller gets a plain reference.
AllocRef ==
    \E a \in 1..Len(arenas), ty \in Types :
        \E v \in Values(ty) : AllocPtrPush(a, ty, v, "alloc")
\* alloc_own and alloc_own_pinned: the caller gets a handle.
AllocHandle ==
    \E a \in 1..Len(arenas), ty \in Types, fn \in AllocFns \ {"alloc"} :
        \E v \in Values(ty) : AllocPtrPush(a, ty, v, fn)
RegisterSome == \E p \in inflight : AllocPtrRegister(p)
DowngradeSome == \E h \in handles : DowngradeOwn(h)
TryGetSome == \E a \in 1..Len(arenas), h \in handles : TryGet(a, h)
DropSome == \E a \in 1..Len(arenas) : ArenaDrop(a)

\* Arenas that allocate, hand out references and are dropped.
ArenaNext ==
    \/ ArenaNew
    \/ AllocRef
    \/ RegisterSome
    \/ DropSome

ArenaSpec == Init /\ [][ArenaNext]_avars

\* Arenas that allocate, hand out handles and resolve them.
HandleNext ==
    \/ ArenaNew
    \/ AllocHandle
    \/ RegisterSome
    \/ DowngradeSome
    \/ TryGetSome

HandleSpec == Init /\ [][HandleNext]_avars

(***************************************************************************)
(* Scheduler::cache (crates/query/src/lib.rs), the first thing             *)
(* Scheduler::query does.  One step per map operation: both maps are       *)
(* DashMaps, so each operation is atomic and the calls of several threads  *)
(* interleave between them.                                                *)
(***************************************************************************)
\* A build without debug_assertions: there is no check.
CollisionCheckRelease(prev, ty) == TRUE

\* if let Some(previous_type_name) = ... { assert_eq!(type_name::<Q>(), previous_type_name) }
CollisionCheck(prev, ty) == prev = "none" \/ prev = ty

\* A thread enters cache::<Q>().
CacheCall(t, ty) ==
    /\ calls[t].pc \in {"idle", "done"}
    /\ ncalls < MaxCalls
    /\ calls' = [calls EXCEPT ![t] = [ ty |-> ty, pc |-> "insert", second |-> FALSE,
                                        got |-> "none", gotCache |-> 0 ]]
    /\ ncalls' = ncalls + 1
    /\ UNCHANGED << compute_type_names, cache_types, cache_ids, installs, seen >>
    /\ UNCHANGED notCache

\* compute_type_names.insert(Q::NAME, type_name::<Q>()) and the assertion on
\* the previous value.  second records that this is the first call of its
\* type and that another type of the same NAME was seen before it.
CacheInsert(t) ==
    LET ty == calls[t].ty
        prev == compute_type_names[NameOf(ty)] IN
    /\ calls[t].pc = "insert"
    /\ compute_type_names' = [compute_type_names EXCEPT ![NameOf(ty)] = ty]
    /\ seen' = seen \cup {ty}
    /\ calls' = [calls EXCEPT ![t].pc = IF CollisionCheck(prev, ty) THEN "entry" ELSE "panicked",
                              ![t].second = /\ ty \notin seen
                                            /\ \E k \in seen : k # ty /\ NameOf(k) = NameOf(ty)]
    /\ UNCHANGED << cache_types, cache_ids, installs, ncalls >>
    /\ UNCHANGED notCache

\* The caches allocated so far for caches_by_type.
CachesAllocated == installs["N1"] + installs["N2"]

\* caches_by_type.insert(Q::NAME, ..): the new cache replaces the one found.
EntryInsert(found) == TRUE

\* entry(Q::NAME).or_insert_with(..): a cache is made and put into the map
\* only if none is found; the DashMap entry holds the lock of the key from the
\* lookup to the insertion.
EntryIsVacant(found) == found = 0

\* caches_by_type.entry(Q::NAME).or_insert_with(|| arena.alloc(Cache::<Q>::new()))
CacheEntry(t) ==
    LET ty == calls[t].ty
        n == NameOf(ty) IN
    /\ calls[t].pc = "entry"
    /\ IF EntryIsVacant(cache_ids[n])
       THEN /\ cache_types' = [cache_types EXCEPT ![n] = ty]
            /\ cache_ids' = [cache_ids EXCEPT ![n] = CachesAllocated + 1]
            /\ installs' = [installs EXCEPT ![n] = @ + 1]
       ELSE UNCHANGED << cache_types, cache_ids, installs >>
    /\ calls' = [calls EXCEPT ![t].pc = "transmute", ![t].got = cache_types'[n],
                              ![t].gotCache = cache_ids'[n]]
    /\ UNCHANGED << compute_type_names, seen, ncalls >>
    /\ UNCHANGED notCache

\* just_about_anything::transmute(cache): the cache found is used as a
\* Cache<Q>, whatever it is.
CacheTransmute(t) ==
    /\ calls[t].pc = "transmute"
    /\ calls' = [calls EXCEPT ![t].pc = "done"]
    /\ UNCHANGED << compute_type_names, cache_types, cache_ids, installs, seen, ncalls >>
    /\ UNCHANGED notCache

CallSome == \E t \in Threads, ty \in QueryTypes : CacheCall(t, ty)
InsertSome == \E t \in Threads : CacheInsert(t)
EntrySome == \E t \in Threads : CacheEntry(t)
TransmuteSome == \E t \in Threads : CacheTransmute(t)

CacheNext ==
    \/ CallSome
    \/ InsertSome
    \/ EntrySome
    \/ TransmuteSome

CacheSpec == Init /\ [][CacheNext]_cvars

(***************************************************************************)
(* Name::fxhash (crates/query/src/name.rs) on a target with 64-bit,        *)
(* little-endian usize.  A u64 is the sequence of its eight bytes, lowest  *)
(* first.                                                                  *)
(***************************************************************************)
\* Length of the names hashed.
MaxLen == 8
\* The bytes of "Fib", the name of the query of tests/rec_fib.rs.
Alphabet == {70, 105, 98}
Inputs == UNION { [ 1..n -> Alphabet ] : n \in 0..MaxLen }

\* const K: u64 = 0x517cc1b727220a95
K == << 149, 10, 34, 39, 183, 193, 124, 81 >>

\* u64::rotate_left(5)
RotateLeft5(h) ==
    [ k \in 1..8 |-> ((h[k] % 8) * 32) + (h[IF k = 1 THEN 8 ELSE k - 1] \div 8) ]

\* a ^ b on the lowest n bits
RECURSIVE XorBits(_, _, _)
XorBits(a, b, n) ==
    IF n = 0 THEN 0 ELSE ((a + b) % 2) + 2 * XorBits(a \div 2, b \div 2, n - 1)

\* u64 ^ u64
Xor64(x, y) == [ k \in 1..8 |-> XorBits(x[k], y[k], 8) ]

\* The sum of the byte products that make up byte k of a product.
RECURSIVE ColumnSum(_, _, _, _)
ColumnSum(x, y, k, a) ==
    IF a > k THEN 0 ELSE x[a] * y[k + 1 - a] + ColumnSum(x, y, k, a + 1)

RECURSIVE MulFrom(_, _, _, _)
MulFrom(x, y, k, carry) ==
    IF k > 8 THEN << >>
    ELSE LET t == ColumnSum(x, y, k, 1) + carry IN
         << t % 256 >> \o MulFrom(x, y, k + 1, t \div 256)

\* u64::wrapping_mul: the product modulo 2^64
WrappingMul(x, y) == MulFrom(x, y, 1, 0)

\* u64::from_le_bytes, and u32::from_ne_bytes, u16::from_ne_bytes and u8
\* converted to u64.
ToU64(bs) == [ k \in 1..8 |-> IF k <= Len(bs) THEN bs[k] ELSE 0 ]

\* macro add_to_hash
AddToHash(h, chunk) == WrappingMul(Xor64(RotateLeft5(h), chunk), K)

\* Name::new(name) for every name: fxhash is entered.
HashInit ==
    /\ SchedulerInit /\ ArenaInit /\ CacheInit /\ LockInit /\ RegisterInit
    /\ bytes \in Inputs
    /\ hash_i = 0
    /\ hash = Zero64
    /\ fed = << >>
    /\ hpc = "while"

\* add_to_hash of bytes[i], ..., bytes[n - 1 + i], then i += step.  An index
\* that is not below bytes.len() panics.
Feed(n, step, next) ==
    IF hash_i + n <= Len(bytes)
    THEN /\ hash' = AddToHash(hash, ToU64(SubSeq(bytes, hash_i + 1, hash_i + n)))
         /\ fed' = fed \o SubSeq(bytes, hash_i + 1, hash_i + n)
         /\ hash_i' = hash_i + step
         /\ hpc' = next
         /\ UNCHANGED bytes
    ELSE /\ hpc' = "panicked"
         /\ UNCHANGED << bytes, hash_i, hash, fed >>

Skip(next) ==
    /\ hpc' = next
    /\ UNCHANGED << bytes, hash_i, hash, fed >>

\* while bytes.len() >= size_of::<usize>() { ... }: the test and one turn.
HashWhile ==
    /\ hpc = "while"
    /\ IF Len(bytes) >= UsizeBytes THEN Feed(8, UsizeBytes, "while") ELSE Skip("if4")
    /\ UNCHANGED notHash

\* if (size_of::<usize>() > 4) && (bytes.len() >= 4) { ... }
HashIf4 ==
    /\ hpc = "if4"
    /\ IF UsizeBytes > 4 /\ Len(bytes) >= 4 THEN Feed(4, 4, "if2") ELSE Skip("if2")
    /\ UNCHANGED notHash

\* if (size_of::<usize>() > 2) && bytes.len() >= 2 { ... }
HashIf2 ==
    /\ hpc = "if2"
    /\ IF UsizeBytes > 2 /\ Len(bytes) >= 2 THEN Feed(2, 2, "if1") ELSE Skip("if1")
    /\ UNCHANGED notHash

\* if (size_of::<usize>() > 1) && !bytes.is_empty() { ... }, and the return.
HashIf1 ==
    /\ hpc = "if1"
    /\ IF UsizeBytes > 1 /\ bytes # << >> THEN Feed(1, 0, "done") ELSE Skip("done")
    /\ UNCHANGED notHash

HashNext ==
    \/ HashWhile
    \/ HashIf4
    \/ HashIf2
    \/ HashIf1

HashSpec == HashInit /\ [][HashNext]_hvars

\* C13: a handle (Ref, Own or OwnPinned) made by one arena and given to
\* try_get, try_get_mut or try_get_mut_pinned of another arena yields
\* DifferentArenaError, and no reference: both for the call that was made
\* last and for every call that can be made next.
DifferentArenaIsRejected ==
    /\ lastGet.foreign => lastGet.res = "Err"
    /\ \A a \in 1..Len(arenas) : \A h \in handles :
          h.ptr[1] # a => TryGetResult(a, h).res = "Err"

\* C13 witness: try_get_mut_pinned of one arena was called with an OwnPinned
\* of another arena and returned the error.
ForeignHandleRejected ==
    /\ lastGet.kind = "OwnPinned"
    /\ lastGet.foreign
    /\ lastGet.res = "Err"

\* C14: whatever the sequence of Arena::new calls, no two arenas, live or
\* dropped, have the same index.
UniqueArenaIndex ==
    \A a \in 1..Len(arenas) : \A b \in 1..Len(arenas) :
        a # b => arenas[a].index # arenas[b].index

\* C14 witness: a second arena was created after the first one was dropped.
ArenaCreatedAfterDrop ==
    /\ Len(arenas) >= 2
    /\ ~ arenas[1].live
    /\ arenas[2].allocs = << >>
    /\ arenas[2].live

\* C15: a Ref obtained by downgrading the Own of alloc_own(v) resolves, in the
\* arena that made it, to v: for the get that was made last and for every Ref
\* that exists (a copy of a Ref is the same pointer and arena index).
HandleRoundTrip ==
    /\ (lastGet.kind = "Ref" /\ ~ lastGet.foreign) =>
          lastGet.res = "Ok" /\ lastGet.val = lastGet.expected
    /\ \A h \in handles :
          h.kind = "Ref" =>
             /\ TryGetResult(h.ptr[1], h).res = "Ok"
             /\ TryGetResult(h.ptr[1], h).val = arenas[h.ptr[1]].allocs[h.ptr[2]].val
             /\ h.val = arenas[h.ptr[1]].allocs[h.ptr[2]].val

\* C15 witness: the second arena resolved a Ref of its own to the value 2.
RefResolved ==
    /\ lastGet.kind = "Ref"
    /\ ~ lastGet.foreign
    /\ lastGet.res = "Ok"
    /\ lastGet.val = 2
    /\ \E h \in handles : h.kind = "Ref" /\ h.ptr[1] = 2 /\ h.val = 2

\* How often an event is in the log of a dropped arena, and where.
Count(log, e) == Cardinality({ x \in 1..Len(log) : log[x] = e })
Pos(log, e) == CHOOSE x \in 1..Len(log) : log[x] = e

\* The destructor of every allocation whose type needs one has run once, and
\* of no other allocation.
DroppedExactlyOnce(A) ==
    \A k \in 1..Len(A.allocs) :
        Count(A.log, DropEvent(k)) = IF NeedsDrop(A.allocs[k].ty) THEN 1 ELSE 0

\* C16: when an arena is dropped, the drop function of every allocation whose
\* type needs a destructor runs exactly once, the drop functions run in the
\* order in which they were registered, no allocation is deallocated before
\* the last drop function has run, and then every allocation is deallocated
\* exactly once.  Nothing of this happens while the arena is live.
DropThenDeallocate ==
    \A a \in 1..Len(arenas) :
        LET A == arenas[a] IN
        IF A.live THEN A.log = << >>
        ELSE /\ DroppedExactlyOnce(A)
             /\ \A j1 \in 1..Len(A.droppers) : \A j2 \in 1..Len(A.droppers) :
                   j1 < j2 => Pos(A.log, DropEvent(A.droppers[j1].alloc_index))
                                 < Pos(A.log, DropEvent(A.droppers[j2].alloc_index))
             /\ \A x \in 1..Len(A.log) : \A y \in 1..Len(A.log) :
                   (A.log[x].ev = "drop" /\ A.log[y].ev = "dealloc") => x < y
             /\ \A k \in 1..Len(A.allocs) : Count(A.log, DeallocEvent(k)) = 1
             /\ Len(A.log) = Len(A.droppers) + Len(A.allocs)

\* C16 witness: an arena was dropped that held two allocations with a
\* destructor, the second of which had registered its drop function first.
DroppedOutOfAllocationOrder ==
    \E a \in 1..Len(arenas) :
        /\ ~ arenas[a].live
        /\ Len(arenas[a].droppers) = 2
        /\ arenas[a].droppers[1].alloc_index = 2

\* C17 as stated: on arena drop the destructors run in the reverse of the
\* order in which their drop functions were registered.
DropsInReverseRegistrationOrder ==
    \A a \in 1..Len(arenas) :
        LET A == arenas[a] IN
        ~ A.live =>
           /\ DroppedExactlyOnce(A)
           /\ \A j1 \in 1..Len(A.droppers) : \A j2 \in 1..Len(A.droppers) :
                 j1 < j2 => Pos(A.log, DropEvent(A.droppers[j2].alloc_index))
                               < Pos(A.log, DropEvent(A.droppers[j1].alloc_index))

\* C17, amended: the arena drops every allocation that needs it exactly once,
\* in the order of registration: if x registered its drop function before y,
\* the destructor of x runs before that of y.
DropsInRegistrationOrder ==
    \A a \in 1..Len(arenas) :
        LET A == arenas[a] IN
        ~ A.live =>
           /\ DroppedExactlyOnce(A)
           /\ \A j \in 1..Len(A.droppers) :
                 A.log[j] = DropEvent(A.droppers[j].alloc_index)

\* C17 witness: an arena was dropped that held two allocations with a
\* destructor, registered in the order of allocation.
TwoDestructorsRan ==
    \E a \in 1..Len(arenas) :
        /\ ~ arenas[a].live
        /\ Len(arenas[a].droppers) = 2
        /\ arenas[a].droppers[1].alloc_index = 1
        /\ arenas[a].log[1] = DropEvent(1)

\* C18: a value of a zero-sized type is not recorded in allocs (nor, then, in
\* droppers), so that nothing is deallocated for it when the arena is dropped.
ZstIsNotTracked ==
    \A a \in 1..Len(arenas) : \A k \in 1..Len(arenas[a].allocs) :
        SizeOf(arenas[a].allocs[k].ty) # 0

\* A thread has used a cache of one type as a cache of another.
Reinterpreted(t) == calls[t].pc = "done" /\ calls[t].got # calls[t].ty

\* C19: with debug assertions, the first call of a query type, on a scheduler
\* that has seen another type of the same NAME, fails the assertion, and
\* does so before the caches_by_type lookup; no cache is used as a cache of
\* another type unless an assertion has failed before; and a call fails the
\* assertion only if another type of the same NAME has been seen.
CollisionIsCaught ==
    /\ \A t \in Threads : calls[t].second => calls[t].pc = "panicked" /\ calls[t].got = "none"
    /\ \A t \in Threads : Reinterpreted(t) => \E u \in Threads : calls[u].pc = "panicked"
    /\ \A t \in Threads :
          calls[t].pc = "panicked" =>
             \E k \in seen : k # calls[t].ty /\ NameOf(k) = NameOf(calls[t].ty)

\* C19 witness: a call of A has returned the Cache<A> and the first call of B
\* has failed the assertion.
SecondKindAsserted ==
    \E t \in Threads : \E u \in Threads :
        /\ calls[t].ty = "A" /\ calls[t].pc = "done" /\ calls[t].got = "A"
        /\ calls[u].ty = "B" /\ calls[u].second /\ calls[u].pc = "panicked"

\* C20: for a name of every length, fxhash ends without an index past the end
\* of the bytes, and has then passed every byte of the name to add_to_hash
\* exactly once, in order.
FxHashFeedsEveryByteOnce ==
    /\ hpc # "panicked"
    /\ hpc = "done" => fed = bytes

\* A task is at its cell.set (run has returned).
AtCellSet(t) == t.some /\ t.ip = Len(Body(t.q)) + 1
\* A task is at its enqueued.remove (cell.set has succeeded).
AtEnqueuedRemove(t) == t.some /\ t.ip = Len(Body(t.q)) + 2

\* C21: a cell that is full never changes, and no task reaches its cell.set
\* with the cell already full, so the 'cell may only be computed once'
\* expect never fails.
CellIsWrittenOnce ==
    /\ [][ \A c \in DOMAIN cellStore :
              (c \in DOMAIN cellStore' /\ cellStore[c] # Empty /\ nreq' >= nreq)
                 => cellStore'[c] = cellStore[c] ]_vars
    /\ [](\A k \in 1..Len(future_queue) :
              AtCellSet(future_queue[k]) => cellStore[future_queue[k].cell] = Empty)

\* C22: a query that has been scheduled and whose cell is empty is in the
\* enqueued set, and a query whose cell is full is in the enqueued set only
\* while its task is between cell.set and enqueued.remove.
EnqueuedUntilFilled ==
    /\ \A q \in Query : (pushes[q] > 0 /\ CellContents[q] = Empty) => q \in enqueued
    /\ \A q \in enqueued :
          CellContents[q] # Empty =>
             \E k \in 1..Len(future_queue) :
                 future_queue[k].q = q /\ AtEnqueuedRemove(future_queue[k])

\* C23: in a pass of either trampoline every task of the live-task vector is
\* polled exactly once: while the pass polls, the tasks whose poll has
\* returned have been polled once and the others not at all; when the pass
\* ends, the vector holds exactly the tasks that returned Pending, each
\* polled once, and no task that returned Ready.
PolledOncePerPass ==
    /\ (pc = "poll" /\ poll_loop = "SingleThreaded") =>
          \A k \in 1..Len(future_queue) :
              future_queue[k].polls = IF k < i THEN 1 ELSE 0
    /\ (pc = "poll" /\ poll_loop = "Parallel") =>
          \A k \in 1..Len(future_queue) :
              IF future_queue[k].some
              THEN future_queue[k].polls = IF k \in polled THEN 1 ELSE 0
              ELSE k \in polled
    /\ pc \in {"drain", "read"} =>
          \A k \in 1..Len(future_queue) :
              LET t == future_queue[k] IN
              /\ t.some
              /\ t.polls = 1
              /\ t.ip \in 1..Len(Body(t.q))
              /\ Body(t.q)[t.ip].op = "await"

\* C23 witness: a single-threaded pass has ended in which the task of Fib(1)
\* returned Ready and was removed and two tasks returned Pending.
PassWithReadyAndPending ==
    /\ pc = "drain"
    /\ poll_loop = "SingleThreaded"
    /\ Len(future_queue) = 2
    /\ CellContents[Fib(1)] # Empty
    /\ CellContents[Fib(0)] = Empty

\* C24: for every NAME at most one cache is ever put into caches_by_type,
\* and it stays: every cache::<Q>() call that has passed the lookup, also one
\* of several first calls made at the same time, holds the cache that is in
\* the map for Q::NAME now.
OneCachePerName ==
    /\ \A n \in Names :
          /\ installs[n] <= 1
          /\ (installs[n] = 0) = (cache_ids[n] = 0)
          /\ (cache_types[n] = "none") = (cache_ids[n] = 0)
    /\ \A t \in Threads :
          calls[t].pc \in {"transmute", "done"} =>
             /\ calls[t].gotCache # 0
             /\ calls[t].gotCache = cache_ids[NameOf(calls[t].ty)]

\* C24 witness: the first two calls on the scheduler were cache::<C>() on two
\* threads, and both have returned the same cache.
TwoFirstCallsOneCache ==
    /\ ncalls = 2
    /\ calls[1].ty = "C" /\ calls[1].pc = "done"
    /\ calls[2].ty = "C" /\ calls[2].pc = "done"
    /\ calls[1].gotCache = calls[2].gotCache
    /\ calls[1].gotCache # 0

\* C25: as long as an arena is not dropped, no step removes, moves or
\* deallocates an entry of its allocs: the vector only grows at its end and
\* nothing is dropped or deallocated.
AllocationsSurvive ==
    [][ \A a \in 1..Len(arenas) :
           arenas'[a].live =>
              /\ Len(arenas'[a].allocs) >= Len(arenas[a].allocs)
              /\ SubSeq(arenas'[a].allocs, 1, Len(arenas[a].allocs)) = arenas[a].allocs
              /\ arenas'[a].log = << >> ]_avars

\* C25 witness: an arena holds two allocations and is live after another
\* arena, with an allocation, has been dropped.
SurvivedOtherDrop ==
    \E a \in 1..Len(arenas) : \E b \in 1..Len(arenas) :
        /\ arenas[a].live
        /\ Len(arenas[a].allocs) = 2
        /\ ~ arenas[b].live

\* C28: however alloc calls on one arena interleave, every entry of droppers
\* holds a valid index into allocs, the allocation there is of the type the
\* drop function was made for and needs a destructor, no two entries hold the
\* same index, and an allocation that needs a destructor has its entry unless
\* its alloc call is still between the two pushes.
DroppersMatchAllocations ==
    \A a \in 1..Len(arenas) :
        LET A == arenas[a]
            pending == { p \in inflight : p.a = a } IN
        /\ \A j \in 1..Len(A.droppers) :
              /\ A.droppers[j].alloc_index \in 1..Len(A.allocs)
              /\ A.allocs[A.droppers[j].alloc_index].ty = A.droppers[j].ty
              /\ NeedsDrop(A.droppers[j].ty)
              /\ \A p \in pending : p.alloc_index # A.droppers[j].alloc_index
        /\ \A j1 \in 1..Len(A.droppers) : \A j2 \in 1..Len(A.droppers) :
              j1 # j2 => A.droppers[j1].alloc_index # A.droppers[j2].alloc_index
        /\ Len(A.droppers) + Cardinality(pending)
              = Cardinality({ k \in 1..Len(A.allocs) : NeedsDrop(A.allocs[k].ty) })

\* C28 witness: two alloc calls on a live arena have interleaved: the call
\* that pushed its allocation second has registered its drop function first.
InterleavedAllocs ==
    \E a \in 1..Len(arenas) :
        /\ arenas[a].live
        /\ Len(arenas[a].droppers) = 2
        /\ arenas[a].droppers[1].alloc_index = 2
        /\ arenas[a].droppers[2].alloc_index = 1

(***************************************************************************)
(* RegisterAllocator (crates/ir-generated/src/emit/register_allocator.rs). *)
(* Register ids are u16; next_register_id never exceeds the end of the     *)
(* range, so the addition does not wrap.                                   *)
(***************************************************************************)
\* Registers that are allocated and not dropped at one time, where registers
\* are dropped too.
MaxLive == 3

\* unwrapped >= range.start && unwrapped < range.end
InRange(x, range) == x >= range.start /\ x < range.end

\* The last dropped register of the range is taken.
LastDroppedPosition(regs, range) ==
    LET ks == { k \in 1..Len(regs) : InRange(regs[k], range) } IN
    IF ks = {} THEN 0 ELSE CHOOSE k \in ks : \A m \in ks : k >= m

\* dropped_registers.iter().position(..): the first position that holds a
\* register of the range, 0 for None.
DroppedPosition(regs, range) ==
    LET ks == { k \in 1..Len(regs) : InRange(regs[k], range) } IN
    IF ks = {} THEN 0 ELSE CHOOSE k \in ks : \A m \in ks : k <= m

\* Vec::remove(index), index 1-based
VecRemove(s, k) == SubSeq(s, 1, k - 1) \o SubSeq(s, k + 1, Len(s))

\* The id after the range is handed out too.
IdExhaustedPastEnd(id, range_end) == id > range_end

\* RegisterIdAllocator::next: if id >= range_end { return Err(..) }
IdExhausted(id, range_end) == id >= range_end

\* The call as last_next records it: its result and the allocator it was made
\* on.
NextResult(res, id) ==
    [ res |-> res, id |-> id, dropped |-> dropped_registers,
      fresh |-> next_register_id, wasLive |-> id \in live_registers ]

\* RegisterAllocator::next_nat32 (IrEmitter::alloc_register_nat32)
NextNat32 ==
    LET k == DroppedPosition(dropped_registers, NAT32_ID_RANGE) IN
    /\ IF k # 0
       THEN /\ dropped_registers' = VecRemove(dropped_registers, k)
            /\ live_registers' = live_registers \cup {dropped_registers[k]}
            /\ last_next' = NextResult("Ok", dropped_registers[k])
            /\ UNCHANGED next_register_id
       ELSE IF IdExhausted(next_register_id, NAT32_ID_RANGE.end)
       THEN /\ last_next' = NextResult("Err", next_register_id)
            /\ UNCHANGED << next_register_id, dropped_registers, live_registers >>
       ELSE /\ next_register_id' = (next_register_id + 1) % 65536
            /\ live_registers' = live_registers \cup {next_register_id}
            /\ last_next' = NextResult("Ok", next_register_id)
            /\ UNCHANGED dropped_registers
    /\ UNCHANGED notRegisters

\* RegisterAllocator::drop (IrEmitter::drop_register): the guard of a register
\* that next_nat32 returned is given up.
RegisterDrop(id) ==
    /\ id \in live_registers
    /\ dropped_registers' = Append(dropped_registers, id)
    /\ live_registers' = live_registers \ {id}
    /\ UNCHANGED << next_register_id, last_next >>
    /\ UNCHANGED notRegisters

\* next_nat32 called over and over on a new allocator, as tests::alloc_overflow
\* does.
OverflowNext == NextNat32

OverflowSpec == Init /\ [][OverflowNext]_rvars

NextNat32Bounded ==
    /\ Cardinality(live_registers) < MaxLive
    /\ NextNat32
DropSomeRegister == \E id \in live_registers : RegisterDrop(id)

\* Registers are allocated and dropped in any order.
RegisterNext ==
    \/ NextNat32Bounded
    \/ DropSomeRegister

RegisterSpec == Init /\ [][RegisterNext]_rvars

\* C29: on a new allocator without drops, next_nat32 hands out the ids of
\* NAT32_ID_RANGE in increasing order and nothing else; once they are all
\* handed out the call fails, and a failed call changes nothing in the
\* allocator.
Nat32RangeExhausts ==
    /\ [](/\ next_register_id \in NAT32_ID_RANGE.start..NAT32_ID_RANGE.end
          /\ live_registers = NAT32_ID_RANGE.start..(next_register_id - 1)
          /\ last_next.res = "Ok" => last_next.id = next_register_id - 1
          /\ last_next.res = "Err" => next_register_id = NAT32_ID_RANGE.end)
    /\ [][ /\ (next_register_id = NAT32_ID_RANGE.end) = (last_next'.res = "Err")
           /\ last_next'.res = "Err" =>
                 UNCHANGED << next_register_id, dropped_registers, live_registers >>
         ]_rvars

\* C29 witness: the call after the last id of the range has failed.
Nat32Exhausted ==
    /\ last_next.res = "Err"
    /\ Cardinality(live_registers) = RANGE
    /\ NAT32_ID_RANGE.end - 1 \in live_registers

\* The register of the range that was dropped first among those of a
\* dropped_registers.
OldestDropped(regs) ==
    regs[CHOOSE k \in 1..Len(regs) :
                /\ InRange(regs[k], NAT32_ID_RANGE)
                /\ \A m \in 1..(k - 1) : ~ InRange(regs[m], NAT32_ID_RANGE)]

\* C30: a register that next_nat32 returns is in NAT32_ID_RANGE and was not
\* live; it is the one dropped first among the dropped registers if there is
\* one, and a new id only otherwise; and no id is at once live and dropped,
\* or dropped twice.
RegistersAreReused ==
    /\ last_next.res = "Ok" =>
          /\ InRange(last_next.id, NAT32_ID_RANGE)
          /\ ~ last_next.wasLive
          /\ last_next.id = IF \E k \in 1..Len(last_next.dropped) :
                                    InRange(last_next.dropped[k], NAT32_ID_RANGE)
                            THEN OldestDropped(last_next.dropped)
                            ELSE last_next.fresh
    /\ \A k \in 1..Len(dropped_registers) :
          /\ dropped_registers[k] \notin live_registers
          /\ \A m \in 1..Len(dropped_registers) :
                m # k => dropped_registers[m] # dropped_registers[k]
    /\ \A id \in live_registers : InRange(id, NAT32_ID_RANGE) /\ id < next_register_id

\* C30 witness: with two registers dropped, the later allocated one first,
\* next_nat32 has returned that one.
OldestDroppedReused ==
    /\ last_next.res = "Ok"
    /\ Len(last_next.dropped) = 2
    /\ last_next.dropped[1] > last_next.dropped[2]
    /\ last_next.id = last_next.dropped[1]

(***************************************************************************)
(* The mutex of erased_queue.  The drain loop of both trampolines,         *)
(*   while let Some(c) = self.erased_queue.lock().pop() { .. },            *)
(* is taken one iteration at a time: the guard is a temporary of the       *)
(* loop's condition and lives until the end of the loop's body.            *)
(***************************************************************************)
\* The guard outlives the body of the loop.
LockKeptAfterBody == "trampoline"

\* The end of the body of the drain loop drops the guard.
LockAfterBody == "free"

\* self.erased_queue.lock().pop(): the lock is taken; with a descriptor the
\* body of the loop is entered under the lock, with None the guard is dropped
\* and the pass goes on to its polling step.
DrainPop ==
    /\ pc = "drain"
    /\ lock = "free"
    /\ IF erased_queue = << >>
       THEN /\ pc' = "poll"
            /\ i' = 1
            /\ polled' = {}
            /\ future_queue' = [ k \in 1..Len(future_queue) |->
                                    [future_queue[k] EXCEPT !.polls = 0] ]
            /\ UNCHANGED << sched, lvars >>
       ELSE /\ Install([Cur EXCEPT !.erased_queue = SubSeq(@, 1, Len(@) - 1)])
            /\ popped' = erased_queue[Len(erased_queue)]
            /\ lock' = "trampoline"
            /\ pc' = "materialize"
            /\ UNCHANGED << future_queue, i, polled >>
    /\ UNCHANGED << poll_loop, root, result, nreq, returned, stSnap, abandoned >>
    /\ UNCHANGED notLock

\* The body of the drain loop:
\* let future = erased_computation.erased_query(self); future_queue.push(future)
DrainMaterialize ==
    /\ pc = "materialize"
    /\ LET m == ErasedQuery(Cur, popped) IN
        /\ Install(m.S)
        /\ future_queue' = Append(future_queue, m.task)
    /\ lock' = LockAfterBody
    /\ popped' = NoQuery
    /\ pc' = "drain"
    /\ UNCHANGED << poll_loop, root, i, polled, result, nreq, returned, stSnap,
                    abandoned >>
    /\ UNCHANGED notLock

LockNext ==
    \/ NewScheduler
    \/ Request
    \/ DrainPop
    \/ DrainMaterialize
    \/ PollSingleThreaded
    \/ EndPassSingleThreaded
    \/ PollParallelStep
    \/ EndPassParallel
    \/ ReadResult

LockSpec == Init /\ [][LockNext]_<< vars, lvars >>

\* How often a descriptor of q is in a queue.
Occurrences(s, q) == Cardinality({ k \in 1..Len(s) : s[k] = q })

\* C27: the lock of the pending queue is held exactly while a popped
\* descriptor is materialized, and the materialization neither pushes nor
\* touches the queue; whoever takes the lock or changes the queue finds the
\* lock free; and every descriptor pushed is in the queue, in the hands of
\* the drain loop, or was materialized, once.
PendingQueueLock ==
    /\ [](/\ (pc = "materialize") = (lock = "trampoline")
          /\ (pc = "materialize") = (popped # NoQuery)
          /\ pc = "materialize" =>
                LET S == ErasedQuery(Cur, popped).S IN
                /\ S.erased_queue = erased_queue
                /\ S.pushes = pushes
          /\ \A q \in Query :
                pushes[q] = materialized[q] + Occurrences(erased_queue, q)
                              + (IF popped = q THEN 1 ELSE 0))
    /\ [][ (pushes' # pushes \/ erased_queue' # erased_queue) => lock = "free"
         ]_<< vars, lvars >>

\* C27 witness: a descriptor is materialized under the lock while another
\* one waits in the queue, in a pass after tasks have pushed while polled.
MaterializingUnderLock ==
    /\ lock = "trampoline"
    /\ erased_queue # << >>
    /\ \E q \in Query : materialized[q] > 0 /\ runs[q] > 0

(***************************************************************************)
(* A panic in run, under the single-threaded trampoline.  The panic leaves *)
(* poll, trampoline_single_threaded and request_and_trampoline by          *)
(* unwinding; a caller that catches it goes on with the same scheduler.    *)
(***************************************************************************)
\* The tasks of the unwound vector, each with the runs of its query so far.
Unwound ==
    { [ q |-> future_queue[k].q, runs |-> runs[future_queue[k].q] ] :
        k \in 1..Len(future_queue) }

\* The caller catches the panic that request_and_trampoline let through; the
\* unwinding has dropped future_queue, the trampoline's local vector.
CatchUnwind ==
    /\ pc = "panicked"
    /\ poll_loop = "SingleThreaded"
    /\ pc' = "idle"
    /\ abandoned' = abandoned \cup Unwound
    /\ future_queue' = << >>
    /\ nreq' = nreq + 1
    /\ UNCHANGED << sched, poll_loop, root, i, polled, result, returned, stSnap >>
    /\ UNCHANGED others

RequestSingleThreaded == \E q \in Query : RequestAndTrampoline(q, "SingleThreaded")

PanicNext ==
    \/ NewScheduler
    \/ RequestSingleThreaded
    \/ Drain
    \/ PollSingleThreaded
    \/ EndPassSingleThreaded
    \/ ReadResult
    \/ CatchUnwind

PanicSpec == Init /\ [][PanicNext]_vars

====
